---- MODULE Spec2Model ----
(***************************************************************************)
(* Model of package totp (src/totp/totp.go): time-based one-time passwords *)
(* on top of the HOTP primitive of package hotp.                           *)
(*                                                                         *)
(* One call is in flight at a time (the package keeps no state of its own  *)
(* between calls).  fn names the function being executed and pc its        *)
(* position.  The variadic option list of GenerateCodeCustom and           *)
(* ValidateCustom is applied one option function per step, as the range    *)
(* loop of the code does; the rest of each function is one step.           *)
(*                                                                         *)
(* Counters are uint64 in the code.  The model keeps the wrap-around but   *)
(* scales the width to CounterBits bits (Modulus stands for 2^64).         *)
(***************************************************************************)
EXTENDS Integers, Sequences, FiniteSets

VARIABLES
    faulty,     \* counters for which the HOTP primitive returns an error
    issued,     \* the last passcode GenerateCodeCustom returned, with the arguments
                \* it read (all but Skew)
    fn,         \* function in flight: "none", "GenerateCodeCustom", "ValidateCustom", "Generate"
    pc,         \* "idle", "opts" (applying option functions), "rand" (reading Rand), "done"
    t,          \* argument t, as t.Unix()
    passcode,   \* argument passcode of ValidateCustom
    given,      \* the argument list validateOpts: per option kind, the last value supplied
    opts,       \* the local *ValidateOpts
    counter,    \* ValidateCustom's local counter (int64)
    counters,   \* ValidateCustom's local counters ([]uint64)
    calls,      \* counters handed to hotp.ValidateCustom / hotp.GenerateCodeCustom, in order
    ret,        \* result of the call: [ok, passcode, err]
    gopts,      \* Generate's opts (GenerateOpts, a value parameter)
    randBytes,  \* bytes obtained from opts.Rand during the Generate call
    key         \* the key Generate returned

vars == <<faulty, issued, fn, pc, t, passcode, given, opts, counter, counters,
          calls, ret, gopts, randBytes, key>>

----------------------------------------------------------------------------
(* Bounds of the model *)

\* width of a counter in bits (64 in the code)
CounterBits == 12
\* largest Skew a caller supplies
MaxSkew == 2

Modulus == 2 ^ CounterBits

(* Program constants *)

DefaultSkew == 30
DefaultPeriod == 30
DigitsSix == 6
DefaultSecretSize == 20

Unset == 0 - 1

----------------------------------------------------------------------------
(* Inputs *)

\* t.Unix() of the times tried
Times == {0 - 31, 0 - 1, 0, 29, 59, 90}
\* arguments of WithPeriod
Periods == {0, 10}
\* arguments of WithSkew
Skews == 0 .. MaxSkew
\* arguments of WithDigits (otp.DigitsEight)
DigitsArgs == {8}
\* arguments of WithAlgorithm (otp.AlgorithmSHA256)
AlgorithmArgs == {1}
\* what the HOTP primitive fails on
FaultyChoices == {{}, {1}}

NoErr == "nil"
ErrHotp == "hotp error"
ErrRand == "rand error"
ErrGenerateMissingIssuer == "ErrGenerateMissingIssuer"
ErrGenerateMissingAccountName == "ErrGenerateMissingAccountName"

----------------------------------------------------------------------------
(* The HOTP primitive (package hotp).  A passcode is the code of one       *)
(* (counter, digits, algorithm) under the shared secret; codes of          *)
(* different inputs are different.                                         *)

NoPasscode == [ctr |-> Unset, digits |-> 0, alg |-> 0]
\* a passcode that is the code of no counter
WrongPasscode == [ctr |-> Unset, digits |-> DigitsSix, alg |-> 0]

HotpGenerateCodeCustom(c, o) ==
    IF c \in faulty
    THEN [passcode |-> NoPasscode, err |-> ErrHotp]
    ELSE [passcode |-> [ctr |-> c, digits |-> o.Digits, alg |-> o.Algorithm],
          err |-> NoErr]

HotpValidateCustom(p, c, o) ==
    IF c \in faulty
    THEN [ok |-> FALSE, err |-> ErrHotp]
    ELSE [ok |-> (p = [ctr |-> c, digits |-> o.Digits, alg |-> o.Algorithm]),
          err |-> NoErr]

----------------------------------------------------------------------------
(* ValidateOpts *)

ZeroOpts == [Period |-> 0, Skew |-> 0, Digits |-> 0, Algorithm |-> 0]
NoneGiven == [Period |-> Unset, Skew |-> Unset, Digits |-> Unset, Algorithm |-> Unset]

\* variant of defaultOpts: the period is set to the default whatever was supplied
defaultOptsFixedPeriod(o) ==
    [o EXCEPT !.Skew = IF @ = 0 THEN DefaultSkew ELSE @,
              !.Digits = IF @ = 0 THEN DigitsSix ELSE @,
              !.Period = DefaultPeriod]

\* Skew, Digits and Period of 0 are replaced by 30, 6 and 30
defaultOpts(o) ==
    [o EXCEPT !.Skew = IF @ = 0 THEN DefaultSkew ELSE @,
              !.Digits = IF @ = 0 THEN DigitsSix ELSE @,
              !.Period = IF @ = 0 THEN DefaultPeriod ELSE @]

----------------------------------------------------------------------------
(* Counter arithmetic *)

\* math.Floor(float64(a) / float64(b)); exact for the magnitudes modelled
FloorDiv(a, b) == a \div b

\* uint64(x) of an int64 x: two's complement wrap-around
Uint64(x) == x % Modulus

\* uint64(f) of a float64 f: defined for f >= 0; for f < 0 the result is
\* implementation-dependent: it wraps (amd64) or saturates to 0 (arm64, wasm)
Uint64OfFloat(q) == IF q >= 0 THEN {q % Modulus} ELSE {q % Modulus, 0}

----------------------------------------------------------------------------
(* ValidateCustom: the candidate counters and the validation loop *)

\* the appends of the loop over i = 1 .. int(opts.Skew), from i on
RECURSIVE SkewCounters(_, _, _)
SkewCounters(base, skew, i) ==
    IF i > skew
    THEN <<>>
    ELSE <<Uint64(base + i), Uint64(base - i)>> \o SkewCounters(base, skew, i + 1)

\* variant of BuildCounters: base-i is appended before base+i
BuildCountersMinusFirst(base, skew) ==
    <<Uint64(base)>>
    \o [k \in 1 .. 2 * skew |->
          IF k % 2 = 1
          THEN Uint64(base - (k + 1) \div 2)
          ELSE Uint64(base + k \div 2)]

\* variant of BuildCounters: a candidate below zero is replaced by 0
BuildCountersClamped(base, skew) ==
    <<Uint64(base)>>
    \o [k \in 1 .. 2 * skew |->
          IF k % 2 = 1
          THEN Uint64(base + (k + 1) \div 2)
          ELSE IF base - k \div 2 < 0 THEN 0 ELSE Uint64(base - k \div 2)]

\* counters: uint64(counter), then base+i and base-i for i = 1 .. Skew
BuildCounters(base, skew) ==
    <<Uint64(base)>> \o SkewCounters(base, skew, 1)

\* variant of ValidateLoop: an error of the primitive is skipped like a mismatch
RECURSIVE ValidateLoopSwallow(_, _, _, _)
ValidateLoopSwallow(cs, i, p, o) ==
    IF i > Len(cs)
    THEN [n |-> Len(cs), ok |-> FALSE, err |-> NoErr]
    ELSE LET r == HotpValidateCustom(p, cs[i], o)
         IN  IF r.err = NoErr /\ r.ok
             THEN [n |-> i, ok |-> TRUE, err |-> NoErr]
             ELSE ValidateLoopSwallow(cs, i + 1, p, o)

\* variant of ValidateLoop: an exhausted window is reported as an error
RECURSIVE ValidateLoopLastErr(_, _, _, _)
ValidateLoopLastErr(cs, i, p, o) ==
    IF i > Len(cs)
    THEN [n |-> Len(cs), ok |-> FALSE, err |-> ErrHotp]
    ELSE LET r == HotpValidateCustom(p, cs[i], o)
         IN  IF r.err # NoErr
             THEN [n |-> i, ok |-> FALSE, err |-> r.err]
             ELSE IF r.ok
                  THEN [n |-> i, ok |-> TRUE, err |-> NoErr]
                  ELSE ValidateLoopLastErr(cs, i + 1, p, o)

\* the loop over counters from index i on: the number of primitive calls
\* made when it returns, and what it returns
RECURSIVE ValidateLoop(_, _, _, _)
ValidateLoop(cs, i, p, o) ==
    IF i > Len(cs)
    THEN [n |-> Len(cs), ok |-> FALSE, err |-> NoErr]
    ELSE LET r == HotpValidateCustom(p, cs[i], o)
         IN  IF r.err # NoErr
             THEN [n |-> i, ok |-> FALSE, err |-> r.err]
             ELSE IF r.ok
                  THEN [n |-> i, ok |-> TRUE, err |-> NoErr]
                  ELSE ValidateLoop(cs, i + 1, p, o)

----------------------------------------------------------------------------
(* State *)

NoRet == [ok |-> FALSE, passcode |-> NoPasscode, err |-> NoErr]
NoIssued == [t |-> 0, given |-> NoneGiven, passcode |-> NoPasscode]
ZeroGenerateOpts ==
    [Issuer |-> "", AccountName |-> "", Period |-> 0, SecretSize |-> 0,
     Secret |-> 0, Digits |-> 0, Algorithm |-> 0]
NoKey ==
    [made |-> FALSE, secret |-> 0, issuer |-> "", account |-> "", period |-> 0,
     algorithm |-> 0, digits |-> 0]

Init ==
    /\ faulty \in FaultyChoices
    /\ issued = NoIssued
    /\ fn = "none"
    /\ pc = "idle"
    /\ t = 0
    /\ passcode = NoPasscode
    /\ given = NoneGiven
    /\ opts = ZeroOpts
    /\ counter = 0
    /\ counters = <<>>
    /\ calls = <<>>
    /\ ret = NoRet
    /\ gopts = ZeroGenerateOpts
    /\ randBytes = 0
    /\ key = NoKey

Idle == pc \in {"idle", "done"}

\* a call of GenerateCodeCustom or ValidateCustom starts: opts := new(ValidateOpts)
StartCustom(f, p, tt) ==
    /\ Idle
    /\ fn' = f
    /\ pc' = "opts"
    /\ t' = tt
    /\ passcode' = p
    /\ given' = NoneGiven
    /\ opts' = ZeroOpts
    /\ counter' = 0
    /\ counters' = <<>>
    /\ calls' = <<>>
    /\ ret' = NoRet
    /\ gopts' = ZeroGenerateOpts
    /\ randBytes' = 0
    /\ key' = NoKey
    /\ UNCHANGED <<faulty, issued>>

CallGenerateCodeCustom ==
    \E tt \in Times : StartCustom("GenerateCodeCustom", NoPasscode, tt)

CallValidateCustom ==
    \E tt \in Times :
        \E p \in {WrongPasscode} \cup ({issued.passcode} \ {NoPasscode}) :
            StartCustom("ValidateCustom", p, tt)

\* one iteration of "for _, opt := range validateOpts { opt(opts) }"
ApplyOpt(field, v) ==
    /\ pc = "opts"
    /\ opts' = [opts EXCEPT ![field] = v]
    /\ given' = [given EXCEPT ![field] = v]
    /\ UNCHANGED <<faulty, issued, fn, pc, t, passcode, counter, counters, calls,
                   ret, gopts, randBytes, key>>

WithPeriod == \E period \in Periods : ApplyOpt("Period", period)

WithSkew == \E skew \in Skews : ApplyOpt("Skew", skew)

WithDigits == \E digits \in DigitsArgs : ApplyOpt("Digits", digits)

WithAlgorithm == \E algo \in AlgorithmArgs : ApplyOpt("Algorithm", algo)

\* GenerateCodeCustom after the option loop
GenerateCodeCustom ==
    /\ fn = "GenerateCodeCustom"
    /\ pc = "opts"
    /\ LET o == defaultOpts(opts)
       IN  \E c \in Uint64OfFloat(FloorDiv(t, o.Period)) :
             LET r == HotpGenerateCodeCustom(c, o)
             IN  /\ opts' = o
                 /\ calls' = <<c>>
                 /\ ret' = [ok |-> FALSE, passcode |-> r.passcode, err |-> r.err]
                 /\ issued' = IF r.err = NoErr
                              THEN [t |-> t, given |-> [given EXCEPT !.Skew = Unset],
                                    passcode |-> r.passcode]
                              ELSE issued
    /\ pc' = "done"
    /\ UNCHANGED <<faulty, fn, t, passcode, given, counter, counters, gopts,
                   randBytes, key>>

\* ValidateCustom after the option loop
ValidateCustom ==
    /\ fn = "ValidateCustom"
    /\ pc = "opts"
    /\ LET o == defaultOpts(opts)
           base == FloorDiv(t, o.Period)
           cs == BuildCounters(base, o.Skew)
           r == ValidateLoop(cs, 1, passcode, o)
       IN  /\ opts' = o
           /\ counter' = base
           /\ counters' = cs
           /\ calls' = SubSeq(cs, 1, r.n)
           /\ ret' = [ok |-> r.ok, passcode |-> NoPasscode, err |-> r.err]
    /\ pc' = "done"
    /\ UNCHANGED <<faulty, issued, fn, t, passcode, given, gopts, randBytes, key>>

----------------------------------------------------------------------------
(* Generate: a new TOTP key *)

\* the GenerateOpts tried; Secret is len(opts.Secret)
GenerateInputs ==
    [Issuer : {"", "Example"}, AccountName : {"", "alice@example.com"},
     Period : {0}, SecretSize : {0, 4}, Secret : {0, 10},
     Digits : {0}, Algorithm : {0}]

\* what one Read(secret) of an io.Reader may return for a buffer of size bytes
ReadCounts(size) == {0, size - 1, size}

\* variant of GenerateChecks: AccountName is checked before Issuer
GenerateChecksAccountFirst(o) ==
    IF o.AccountName = "" THEN ErrGenerateMissingAccountName
    ELSE IF o.Issuer = "" THEN ErrGenerateMissingIssuer
    ELSE NoErr

\* the checks of Issuer and AccountName
GenerateChecks(o) ==
    IF o.Issuer = "" THEN ErrGenerateMissingIssuer
    ELSE IF o.AccountName = "" THEN ErrGenerateMissingAccountName
    ELSE NoErr

generateDefaults(o) ==
    [o EXCEPT !.Period = IF @ = 0 THEN DefaultPeriod ELSE @,
              !.SecretSize = IF @ = 0 THEN DefaultSecretSize ELSE @,
              !.Digits = IF @ = 0 THEN DigitsSix ELSE @]

\* the key of otp.NewKeyFromURL(u.String()): secret is the number of bytes
\* encoded as the secret parameter
NewKey(o, n) ==
    [made |-> TRUE, secret |-> n, issuer |-> o.Issuer, account |-> o.AccountName,
     period |-> o.Period, algorithm |-> o.Algorithm, digits |-> o.Digits]

\* Generate up to the read of opts.Rand (or to its return, when there is none)
Generate ==
    /\ Idle
    /\ \E in \in GenerateInputs :
         LET e == GenerateChecks(in)
             o == generateDefaults(in)
         IN  /\ gopts' = IF e = NoErr THEN o ELSE in
             /\ pc' = IF e = NoErr /\ in.Secret = 0 THEN "rand" ELSE "done"
             /\ key' = IF e = NoErr /\ in.Secret # 0 THEN NewKey(o, in.Secret) ELSE NoKey
             /\ ret' = [ok |-> FALSE, passcode |-> NoPasscode, err |-> e]
    /\ fn' = "Generate"
    /\ randBytes' = 0
    /\ t' = 0
    /\ passcode' = NoPasscode
    /\ given' = NoneGiven
    /\ opts' = ZeroOpts
    /\ counter' = 0
    /\ counters' = <<>>
    /\ calls' = <<>>
    /\ UNCHANGED <<faulty, issued>>

\* _, err := opts.Rand.Read(secret), and the rest of Generate
RandRead ==
    /\ fn = "Generate"
    /\ pc = "rand"
    /\ \E n \in ReadCounts(gopts.SecretSize) :
         \E e \in {NoErr, ErrRand} :
             /\ randBytes' = n
             /\ ret' = [ok |-> FALSE, passcode |-> NoPasscode, err |-> e]
             /\ key' = IF e = NoErr THEN NewKey(gopts, gopts.SecretSize) ELSE NoKey
    /\ pc' = "done"
    /\ UNCHANGED <<faulty, issued, fn, t, passcode, given, opts, counter, counters,
                   calls, gopts>>

----------------------------------------------------------------------------

Next ==
    \/ CallGenerateCodeCustom
    \/ CallValidateCustom
    \/ WithPeriod
    \/ WithSkew
    \/ WithDigits
    \/ WithAlgorithm
    \/ GenerateCodeCustom
    \/ ValidateCustom
    \/ Generate
    \/ RandRead

Spec == Init /\ [][Next]_vars

----------------------------------------------------------------------------
(* Properties *)

GenDone == fn = "GenerateCodeCustom" /\ pc = "done"
ValDone == fn = "ValidateCustom" /\ pc = "done"
KeyDone == fn = "Generate" /\ pc = "done"

\* the period the documentation promises for the options given
ExpectedPeriod == IF given.Period \in {Unset, 0} THEN 30 ELSE given.Period

\* the base counter of t
ExpectedBase == t \div ExpectedPeriod

\* the primitive's answer for the passcode under validation at counter x
PrimitiveAt(x) == HotpValidateCustom(passcode, x % Modulus, opts)
ValidAt(x) == PrimitiveAt(x).ok

\* the k-th candidate (k = 1, 2, ...) of the order base, +1, -1, +2, -2, ...
ExpectedCandidate(k) ==
    IF k = 1 THEN ExpectedBase % Modulus
    ELSE IF k % 2 = 0 THEN (ExpectedBase + k \div 2) % Modulus
    ELSE (ExpectedBase - k \div 2) % Modulus

\* the call validates the passcode GenerateCodeCustom returned, with the
\* time and the options that call was given
SameArguments ==
    /\ passcode # NoPasscode
    /\ passcode = issued.passcode
    /\ t = issued.t
    /\ [given EXCEPT !.Skew = Unset] = issued.given

\* C1: round trip: the passcode GenerateCodeCustom(secret, t, opts) returned
\* without error makes ValidateCustom(passcode, secret, t, opts) return
\* (true, nil), for every time t and every option set.
RoundTrip ==
    (ValDone /\ SameArguments) => (ret.ok /\ ret.err = NoErr)

\* C2: skew window boundary: with a caller-supplied Skew = s (0 included) and
\* a primitive that never errors, a passcode valid at base+s or base-s is
\* accepted and a passcode valid only at base+s+1 or only at base-s-1 is not.
SkewWindowBoundary ==
    (ValDone /\ given.Skew # Unset /\ faulty = {}) =>
        LET s == given.Skew
            b == ExpectedBase
        IN  /\ (ValidAt(b + s) \/ ValidAt(b - s)) => ret.ok
            /\ (ValidAt(b + s + 1) \/ ValidAt(b - s - 1)) => ~ret.ok

\* C3: zero skew allows no drift: with Skew unset or 0, only the passcode of
\* the base counter of t is accepted.
ZeroSkewNoDrift ==
    (ValDone /\ given.Skew \in {Unset, 0} /\ ret.ok) => ValidAt(ExpectedBase)

\* C4: fail fast: the first candidate for which the primitive returns an
\* error ends the call with (false, that error); no later candidate is handed
\* to the primitive, and an error never becomes (false, nil).
FailFast ==
    ValDone =>
        /\ \A i \in 1 .. Len(counters) :
              (/\ PrimitiveAt(counters[i]).err # NoErr
               /\ \A j \in 1 .. i - 1 :
                     PrimitiveAt(counters[j]) = [ok |-> FALSE, err |-> NoErr])
              => /\ ret.ok = FALSE
                 /\ ret.err = PrimitiveAt(counters[i]).err
                 /\ calls = SubSeq(counters, 1, i)
        /\ (\E k \in 1 .. Len(calls) : PrimitiveAt(calls[k]).err # NoErr)
              => ret.err # NoErr

\* an error at a candidate that is followed by a candidate that matches
FailFastWitness ==
    /\ ValDone
    /\ ret.err # NoErr
    /\ Len(calls) > 1
    /\ \E j \in Len(calls) + 1 .. Len(counters) : ValidAt(counters[j])

\* C5: no match is not an error: when the primitive returns (false, nil) for
\* each of the 2*Skew+1 candidates, the call returns (false, nil) after trying
\* all of them; the call returns an error only if the primitive returned one.
NoMatchNotError ==
    ValDone =>
        /\ (\A i \in 1 .. Len(counters) :
               PrimitiveAt(counters[i]) = [ok |-> FALSE, err |-> NoErr])
              => /\ ret.ok = FALSE
                 /\ ret.err = NoErr
                 /\ Len(calls) = 2 * opts.Skew + 1
                 /\ calls = counters
        /\ ret.err # NoErr
              => \E k \in 1 .. Len(calls) : PrimitiveAt(calls[k]).err = ret.err

NoMatchWitness ==
    /\ ValDone
    /\ passcode = WrongPasscode
    /\ faulty # {}
    /\ ret = [ok |-> FALSE, passcode |-> NoPasscode, err |-> NoErr]
    /\ Len(calls) = 2 * MaxSkew + 1

\* C6: configuration errors come first: an empty Issuer gives
\* (nil, ErrGenerateMissingIssuer), a non-empty Issuer with an empty
\* AccountName gives (nil, ErrGenerateMissingAccountName), and in both cases
\* nothing was read from the random source and no key was made.
ConfigurationErrorsFirst ==
    (fn = "Generate" /\ (gopts.Issuer = "" \/ gopts.AccountName = "")) =>
        /\ pc = "done"
        /\ ret.err = IF gopts.Issuer = ""
                     THEN ErrGenerateMissingIssuer
                     ELSE ErrGenerateMissingAccountName
        /\ key = NoKey
        /\ randBytes = 0

ConfigurationErrorsWitness ==
    /\ KeyDone
    /\ gopts.Issuer = ""
    /\ gopts.AccountName = ""
    /\ gopts.Secret = 0
    /\ ret.err = ErrGenerateMissingIssuer

\* C7: random-source failure is fatal: without an explicit Secret, Generate
\* returns a key only when exactly SecretSize random bytes were obtained; an
\* error of the source or a short read makes it fail.
RandomSourceFailureFatal ==
    (KeyDone /\ gopts.Issuer # "" /\ gopts.AccountName # "" /\ gopts.Secret = 0) =>
        IF ret.err = NoErr
        THEN key.made /\ randBytes = gopts.SecretSize
        ELSE ~key.made

\* C8: candidate order and short circuit: the primitive is handed base, base+1,
\* base-1, ..., base+Skew, base-Skew in this order (2*Skew+1 candidates for the
\* resolved Skew) and is not called again after the first match or error, so
\* the number of calls is the position of the first match or error.
CandidateOrder ==
    ValDone =>
        LET n == 2 * opts.Skew + 1
            stops == {k \in 1 .. n :
                         PrimitiveAt(ExpectedCandidate(k)) # [ok |-> FALSE, err |-> NoErr]}
        IN  /\ Len(calls) <= n
            /\ \A k \in 1 .. Len(calls) : calls[k] = ExpectedCandidate(k)
            /\ stops = {} => Len(calls) = n
            /\ stops # {} => /\ Len(calls) \in stops
                             /\ \A k \in stops : Len(calls) <= k
            /\ ret.ok <=> (stops # {} /\ ValidAt(ExpectedCandidate(Len(calls))))
            /\ ret.ok => ret.err = NoErr

\* a match at base-1, the third candidate, with a caller-supplied Skew of 2
CandidateOrderWitness ==
    /\ ValDone
    /\ given.Skew = 2
    /\ ret.ok
    /\ Len(calls) = 3
    /\ calls[3] = (ExpectedBase - 1) % Modulus

\* C9: the Period of the counter computation is positive: 30 when no period
\* or a period of 0 was supplied last, the last supplied period otherwise.
PeriodPositive ==
    (GenDone \/ ValDone) =>
        /\ opts.Period > 0
        /\ opts.Period = ExpectedPeriod
        /\ calls[1] \in {(t \div opts.Period) % Modulus, 0}

PeriodPositiveWitness ==
    /\ ValDone
    /\ given.Period = 10
    /\ given.Skew = 0
    /\ t = 29
    /\ calls[1] = 2

\* C10: near the epoch: when the base counter is smaller than the resolved
\* Skew, the candidates base-i below zero are handed over wrapped
\* (Modulus + base - i), the list still holds 2*Skew+1 distinct counters, and
\* a passcode valid only at such a wrapped counter is accepted (the primitive
\* not failing on an earlier candidate).
WindowNearEpoch ==
    (ValDone /\ ExpectedBase < opts.Skew) =>
        /\ Len(counters) = 2 * opts.Skew + 1
        /\ Cardinality({counters[k] : k \in 1 .. Len(counters)}) = 2 * opts.Skew + 1
        /\ \A i \in 1 .. opts.Skew :
              ExpectedBase - i < 0 =>
                 /\ counters[2 * i + 1] = Modulus + ExpectedBase - i
                 /\ (/\ ValidAt(Modulus + ExpectedBase - i)
                     /\ \A j \in 1 .. 2 * i : PrimitiveAt(counters[j]).err = NoErr)
                    => ret.ok /\ ret.err = NoErr

\* base 0, and the passcode of counter Modulus - 2 accepted
WindowNearEpochWitness ==
    /\ ValDone
    /\ ExpectedBase = 0
    /\ passcode.ctr = Modulus - 2
    /\ ret.ok

====
